---- MODULE Spec2Model ----
(***************************************************************************)
(* Model of the conversation-state and message-processing core of          *)
(* src/wpbot.py (WhatsAppOpenAIBot and the /bot webhook).                  *)
(*                                                                         *)
(* Strings are sequences of fragments: an f-string is the concatenation of *)
(* its fragments.  A message text is a sequence of one-character           *)
(* fragments, so that str.lower() and str.strip() are computed character   *)
(* by character.  Timestamps are left out of the log lines.                *)
(*                                                                         *)
(* Python lists are objects: heap maps a list identity to its contents,    *)
(* self.conversations and the local variable `conversation` of a running   *)
(* process_message hold identities.  list.append, a dict store and         *)
(* queue.put are atomic under the interpreter lock; every access to shared *)
(* state made by process_message is a step of its own.                     *)
(***************************************************************************)
EXTENDS Integers, Sequences, FiniteSets, TLC

VARIABLES
    conversations,  \* self.conversations: user id -> list identity (None = absent)
    heap,           \* list identity -> contents of that list object
    user_details,   \* self.user_details: user id -> display name (NoName = absent)
    api_key,        \* openai.api_key is set
    twilio,         \* TWILIO_ACCOUNT_SID and TWILIO_AUTH_TOKEN are in the environment
    message_queue,  \* the module-level queue.Queue
    pc,             \* position of each request thread in process_message
    frame,          \* locals of each request thread's process_message call
    stat,           \* per user: history of the calls made for that user (observer)
    ncalls          \* number of process_message calls started (observer)

vars == <<conversations, heap, user_details, api_key, twilio, message_queue,
          pc, frame, stat, ncalls>>

----------------------------------------------------------------------------
(* Bounds of the model *)

\* process_message calls in a run of Spec (concurrent requests)
MaxCalls == 2
\* process_message calls in a run of SpecText (one request at a time, any text)
MaxCallsText == 2
\* process_message calls in a run of SpecLong (one request at a time)
MaxCallsLong == 11

\* the retention limit of process_message: `if len(conversation) > 20`
MaxHistory == 20

Threads == {1, 2}
None == 0
NoName == <<>>

----------------------------------------------------------------------------
(* Texts *)

SP == " "
CLEAR == <<"!", "c", "l", "e", "a", "r">>
HELP  == <<"!", "h", "e", "l", "p">>
INFO  == <<"!", "i", "n", "f", "o">>

\* str.lower() on one character
LowerChar(c) ==
    CASE c = "C" -> "c"
      [] c = "L" -> "l"
      [] c = "E" -> "e"
      [] c = "A" -> "a"
      [] c = "R" -> "r"
      [] c = "H" -> "h"
      [] c = "P" -> "p"
      [] c = "I" -> "i"
      [] c = "N" -> "n"
      [] c = "F" -> "f"
      [] c = "O" -> "o"
      [] c = "X" -> "x"
      [] c = "W" -> "w"
      [] OTHER -> c

\* str.lower()
Lower(s) == [i \in 1..Len(s) |-> LowerChar(s[i])]

RECURSIVE LStrip(_)
LStrip(s) == IF s # <<>> /\ Head(s) = SP THEN LStrip(Tail(s)) ELSE s

RECURSIVE RStrip(_)
RStrip(s) ==
    IF s # <<>> /\ s[Len(s)] = SP THEN RStrip(SubSeq(s, 1, Len(s) - 1)) ELSE s

\* str.lstrip(): leading whitespace only
StripLeft(s) == LStrip(s)

\* str.strip(): surrounding whitespace removed
Strip(s) == RStrip(LStrip(s))

----------------------------------------------------------------------------
(* Inputs *)

\* sender identifiers as the transport hands them over ('whatsapp:+1234567890')
UserA == <<"whatsapp:", "+1">>
UserB == <<"whatsapp:", "+2">>
Users == {UserA, UserB}

HI == <<"h", "i">>
\* texts a caller may hand to process_message, or a sender to the webhook
ChatTexts == {HI}
CommandTexts ==
    { CLEAR, HELP, INFO,
      <<"!", "C", "L", "E", "A", "R">>,
      <<SP, "!", "C", "L", "E", "A", "R", SP>>,
      <<SP, "!", "h", "e", "l", "p">>,
      <<"!", "I", "n", "f", "o", SP>>,
      <<"!", "c", "l", "e", "a", "r", SP, "n", "o", "w">>,
      <<"x", "!", "h", "e", "l", "p">> }

\* what the gateway may answer, and how it may fail (a provider or network
\* error, or a response without ["choices"]: KeyError('choices'))
YO == <<"y", "o">>
Replies == {YO}
Failures == {<<"timed out">>, <<"'choices'">>}

----------------------------------------------------------------------------
(* Fixed texts of the program *)

SystemMessage ==
    [role |-> "system",
     content |-> <<"You are a helpful assistant responding via WhatsApp.">>]
ClearedReply ==
    <<"Conversation history cleared. What would you like to talk about?">>
NotFoundReply == <<"No conversation history found.">>
HelpReply == <<"WhatsApp OpenAI Bot Help:", "- !clear", "- !help", "- !info",
               "Just type a message to chat with the AI assistant!">>
InfoReply == <<"Bot Configuration:", "- Model: ", "gpt-3.5-turbo",
               "- Temperature: ", "0.7", "- Max tokens: ", "1000">>
WarningReply == <<"API key not set. Please contact the administrator.">>

\* error_message = f"Error: {str(e)}"
ErrorMessage(d) == <<"Error: ">> \o d
\* the apology without the description
SorryReplyBare(d) == <<"Sorry, I encountered an error.">>

\* f"Sorry, I encountered an error: {error_message}"
SorryReply(d) == <<"Sorry, I encountered an error: ">> \o ErrorMessage(d)

ReceivedEvent(name, text) == <<"Received from ">> \o name \o <<": ">> \o text

\* the "Sent to" event without the reply
SentEventBare(name, text) == <<"Sent to ">> \o name

\* f"Sent to {user_name}: {response}"
SentEvent(name, text) == <<"Sent to ">> \o name \o <<": ">> \o text

ProcessingEvent(name) == <<"Processing request for ">> \o name \o <<"...">>
ErrorEvent(d) == <<"ERROR: ">> \o ErrorMessage(d)

----------------------------------------------------------------------------
(* List objects *)

\* The identity of a list object is the place that refers to it: the list
\* stored for the n-th user is n; a list only running calls still hold is
\* named after the first of them; Fresh is the list being created by a step.
UserOrder == <<UserA, UserB>>
UserIndex(u) == CHOOSE n \in 1..Len(UserOrder) : UserOrder[n] = u
Fresh == Len(UserOrder) + Cardinality(Threads) + 1
ListIds == 1..Fresh

\* the list objects something still refers to
Referenced(c, f) ==
    ({c[u] : u \in Users} \cup {f[t].conversation : t \in Threads}) \ {None}

Holders(i, f) == {t \in Threads : f[t].conversation = i}

Identity(i, c, f) ==
    IF \E u \in Users : c[u] = i
    THEN UserIndex(CHOOSE u \in Users : c[u] = i)
    ELSE Len(UserOrder)
         + (CHOOSE t \in Holders(i, f) : \A s \in Holders(i, f) : t <= s)

\* The next state refers to the list objects as c (the store) and f (the
\* calls' locals) say, and h holds their contents; objects nothing refers to
\* any more are dropped.
Install(c, f, h) ==
    /\ conversations' =
           [u \in Users |-> IF c[u] = None THEN None ELSE Identity(c[u], c, f)]
    /\ frame' =
           [t \in Threads |->
               [f[t] EXCEPT !.conversation =
                   IF @ = None THEN None ELSE Identity(@, c, f)]]
    /\ heap' =
           [j \in ListIds |->
               IF \E i \in Referenced(c, f) : Identity(i, c, f) = j
               THEN h[CHOOSE i \in Referenced(c, f) : Identity(i, c, f) = j]
               ELSE <<>>]

\* the stored history of user u (<<>> when the user has none)
History(u) == IF conversations[u] = None THEN <<>> ELSE heap[conversations[u]]

----------------------------------------------------------------------------
(* Pure functions of the program *)

\* user_id.replace('whatsapp:', '')
Phone(u) == SelectSeq(u, LAMBDA f : f # "whatsapp:")

\* the comparisons of process_message: user_message.lower() == "!clear" ...
IsClear(m) == Lower(m) = CLEAR
\* user_message.lower().endswith("!help")
IsHelpSuffix(m) ==
    Len(m) >= Len(HELP) /\ SubSeq(Lower(m), Len(m) - Len(HELP) + 1, Len(m)) = HELP

IsHelp(m) == Lower(m) = HELP

IsInfo(m) == Lower(m) = INFO
IsCommand(m) == IsClear(m) \/ IsHelp(m) \/ IsInfo(m)

\* the slice of the retention policy: conversation[-19:]
KeepLast == 19

\* conversation[-20:]: the slice alone, without conversation[0]
TrimmedNoSystem(l) == SubSeq(l, Len(l) - KeepLast, Len(l))

\* [conversation[0]] + conversation[-18:]
TrimmedShort(l) == <<l[1]>> \o SubSeq(l, Len(l) - KeepLast + 2, Len(l))

\* [conversation[0]] + conversation[-19:]
Trimmed(l) == <<l[1]>> \o SubSeq(l, Len(l) - KeepLast + 1, Len(l))

\* get_user_name: the recorded name, or the identifier without its prefix
UserName(u) == IF user_details[u] # NoName THEN user_details[u] ELSE Phone(u)

\* get_user_name records the name only with the Twilio credentials in the
\* environment and when Client(...) did not raise (created)
Recorded(u, created) ==
    IF user_details[u] = NoName /\ twilio /\ created
    THEN [user_details EXCEPT ![u] = Phone(u)]
    ELSE user_details

----------------------------------------------------------------------------
(* State *)

IdleFrame ==
    [user_id |-> <<>>, user_message |-> <<>>, user_name |-> <<>>,
     conversation |-> None, assistant_message |-> <<>>, error |-> <<>>,
     response |-> <<>>,
     sent |-> <<>>,        \* messages=conversation as the gateway received it
     gw |-> 0,             \* gateway invocations of this call
     upos |-> 0,           \* where this call appended its user message
     key |-> FALSE,        \* the credential was configured when the call began
     before |-> <<>>,      \* the user's stored history when the call began
     via |-> "none", raw |-> <<>>, outcome |-> "none",
     puts |-> <<>>]        \* where in the queue this call put its events

Active(t) == pc[t] \notin {"idle", "returned"}

\* request threads other than t that are inside process_message for user u
Others(t, u) == {s \in Threads \ {t} : Active(s) /\ frame[s].user_id = u}

\* k exchanges of UserA, made one after another and all answered: what they
\* leave in the history after the system message, and in the queue.  Beside
\* role and content a message records the user whose call appended it (of).
RECURSIVE Turns(_)
Turns(k) ==
    IF k = 0 THEN <<>>
    ELSE Turns(k - 1) \o <<[role |-> "user", content |-> HI, of |-> UserA],
                           [role |-> "assistant", content |-> YO, of |-> UserA]>>

RECURSIVE Logged(_, _)
Logged(k, name) ==
    IF k = 0 THEN <<>>
    ELSE Logged(k - 1, name) \o <<ReceivedEvent(name, HI), ProcessingEvent(name),
                                  SentEvent(name, YO)>>

\* The state after construction (k = 0): no history, the directory as loaded
\* from user_details.json, the credential and the environment as found.  With
\* k > 0 the server has already answered k messages of UserA, one after
\* another (at most 9, so nothing was trimmed yet).
InitAfter(k) ==
    /\ user_details \in {[u \in Users |-> NoName],
                         [u \in Users |-> IF u = UserA THEN <<"Ann">> ELSE NoName]}
    /\ api_key \in (IF k = 0 THEN BOOLEAN ELSE {TRUE})
    /\ twilio \in BOOLEAN
    /\ conversations = [u \in Users |-> IF k > 0 /\ u = UserA THEN 1 ELSE None]
    /\ heap = [i \in ListIds |->
                  IF k > 0 /\ i = 1 THEN <<SystemMessage>> \o Turns(k) ELSE <<>>]
    /\ message_queue =
           Logged(k, IF user_details[UserA] # NoName
                     THEN user_details[UserA] ELSE Phone(UserA))
    /\ pc = [t \in Threads |-> "idle"]
    /\ frame = [t \in Threads |-> IdleFrame]
    /\ stat = [u \in Users |->
                  [n |-> IF u = UserA THEN k ELSE 0, pure |-> TRUE, serial |-> TRUE]]
    /\ ncalls = 0

\* histories the concurrent runs start from: none, or 9 exchanges of UserA
WarmTurns == {0, 9}

\* with an empty directory and without the Twilio credentials
Init ==
    /\ \E k \in WarmTurns : InitAfter(k)
    /\ user_details = [u \in Users |-> NoName]
    /\ ~twilio

\* with the directory as loaded
InitText == \E k \in WarmTurns : InitAfter(k)

\* the state after construction, with an empty directory
InitLong ==
    /\ InitAfter(0)
    /\ user_details = [u \in Users |-> NoName]

----------------------------------------------------------------------------
(* process_message, step by step *)

\* entry: get_user_name, then the "Received" event
ProcessMessage(t, u, text, via, raw) ==
    /\ ~Active(t)
    /\ \E created \in (IF user_details[u] = NoName /\ twilio
                       THEN BOOLEAN ELSE {TRUE}) :
           user_details' = Recorded(u, created)
    /\ message_queue' = Append(message_queue, ReceivedEvent(UserName(u), text))
    /\ frame' = [frame EXCEPT ![t] =
                    [IdleFrame EXCEPT !.user_id = u, !.user_message = text,
                                      !.user_name = UserName(u), !.key = api_key,
                                      !.before = History(u),
                                      !.via = via, !.raw = raw,
                                      !.puts = <<Len(message_queue) + 1>>]]
    /\ pc' = [pc EXCEPT ![t] = "dispatch"]
    /\ stat' = [stat EXCEPT ![u].serial = @ /\ Others(t, u) = {}]
    /\ ncalls' = ncalls + 1
    /\ UNCHANGED <<conversations, heap, api_key, twilio>>

\* the /bot route: Body is stripped, then handed to process_message
whatsapp_webhook(t, u, raw) == ProcessMessage(t, u, Strip(raw), "webhook", raw)

\* process_message called with the text as it is
DirectCall(t, u, text) == ProcessMessage(t, u, text, "direct", text)

\* clear_conversation(user_id): the reply and the stored histories after it
ClearReply(u) == IF conversations[u] # None THEN ClearedReply ELSE NotFoundReply

\* clear_conversation replacing every stored history
ClearStoreAll(u) ==
    IF conversations[u] # None
    THEN [b \in Users |-> IF conversations[b] # None THEN Fresh ELSE None]
    ELSE conversations

ClearStore(u) ==
    IF conversations[u] # None
    THEN [conversations EXCEPT ![u] = Fresh]
    ELSE conversations

\* the new list of clear_conversation filled with the old history
ClearHeapKept(u) ==
    IF conversations[u] # None
    THEN [heap EXCEPT ![Fresh] = heap[conversations[u]]]
    ELSE heap

ClearHeap(u) ==
    IF conversations[u] # None
    THEN [heap EXCEPT ![Fresh] = <<SystemMessage>>]
    ELSE heap

\* the reply to a special command, and the store after it
CommandReply(m, u) ==
    IF IsClear(m) THEN ClearReply(u) ELSE IF IsHelp(m) THEN HelpReply ELSE InfoReply
CommandStore(m, u) == IF IsClear(m) THEN ClearStore(u) ELSE conversations
CommandHeap(m, u) == IF IsClear(m) THEN ClearHeap(u) ELSE heap

\* "Check for special commands": !clear calls clear_conversation, !help and
\* !info only build their reply
Command(t) ==
    /\ pc[t] = "dispatch"
    /\ IsCommand(frame[t].user_message)
    /\ Install(CommandStore(frame[t].user_message, frame[t].user_id),
               [frame EXCEPT ![t].response =
                                 CommandReply(frame[t].user_message, frame[t].user_id),
                             ![t].outcome = "command"],
               CommandHeap(frame[t].user_message, frame[t].user_id))
    /\ stat' = [stat EXCEPT ![frame[t].user_id].pure =
                                @ /\ ~IsClear(frame[t].user_message)]
    /\ pc' = [pc EXCEPT ![t] = "emit"]
    /\ UNCHANGED <<user_details, api_key, twilio, message_queue, ncalls>>

\* get_conversation_history: `if user_id not in self.conversations`; with a
\* stored history the function returns it
GetHistory(t) ==
    /\ pc[t] = "dispatch"
    /\ ~IsCommand(frame[t].user_message)
    /\ IF conversations[frame[t].user_id] = None
       THEN /\ pc' = [pc EXCEPT ![t] = "seed"]
            /\ frame' = frame
       ELSE /\ pc' = [pc EXCEPT ![t] = "append_user"]
            /\ frame' = [frame EXCEPT ![t].conversation =
                                          conversations[frame[t].user_id]]
    /\ UNCHANGED <<conversations, heap, user_details, api_key, twilio,
                   message_queue, stat, ncalls>>

\* get_conversation_history: self.conversations[user_id] = [system message]
SeedHistory(t) ==
    /\ pc[t] = "seed"
    /\ Install([conversations EXCEPT ![frame[t].user_id] = Fresh], frame,
               [heap EXCEPT ![Fresh] = <<SystemMessage>>])
    /\ pc' = [pc EXCEPT ![t] = "read"]
    /\ UNCHANGED <<user_details, api_key, twilio, message_queue, stat, ncalls>>

\* get_conversation_history: return self.conversations[user_id]
ReadHistory(t) ==
    /\ pc[t] = "read"
    /\ frame' = [frame EXCEPT ![t].conversation = conversations[frame[t].user_id]]
    /\ pc' = [pc EXCEPT ![t] = "append_user"]
    /\ UNCHANGED <<conversations, heap, user_details, api_key, twilio,
                   message_queue, stat, ncalls>>

\* conversation.append({"role": "user", "content": user_message})
AppendUser(t) ==
    /\ pc[t] = "append_user"
    /\ heap' = [heap EXCEPT ![frame[t].conversation] =
                   Append(@, [role |-> "user", content |-> frame[t].user_message,
                              of |-> frame[t].user_id])]
    /\ frame' = [frame EXCEPT ![t].upos = Len(heap[frame[t].conversation]) + 1]
    /\ pc' = [pc EXCEPT ![t] = "keycheck"]
    /\ UNCHANGED <<conversations, user_details, api_key, twilio, message_queue,
                   stat, ncalls>>

\* `if not openai.api_key`: the warning reply
NoApiKey(t) ==
    /\ pc[t] = "keycheck"
    /\ ~api_key
    /\ frame' = [frame EXCEPT ![t].response = WarningReply, ![t].outcome = "nokey"]
    /\ pc' = [pc EXCEPT ![t] = "emit"]
    /\ UNCHANGED <<conversations, heap, user_details, api_key, twilio,
                   message_queue, stat, ncalls>>

\* the "Processing request" event
Processing(t) ==
    /\ pc[t] = "keycheck"
    /\ api_key
    /\ message_queue' = Append(message_queue, ProcessingEvent(frame[t].user_name))
    /\ frame' = [frame EXCEPT ![t].puts = Append(@, Len(message_queue) + 1)]
    /\ pc' = [pc EXCEPT ![t] = "gateway"]
    /\ UNCHANGED <<conversations, heap, user_details, api_key, twilio, stat,
                   ncalls>>

\* openai.ChatCompletion.create(messages=conversation, ...): the request is sent
CallGateway(t) ==
    /\ pc[t] = "gateway"
    /\ frame' = [frame EXCEPT ![t].sent = heap[frame[t].conversation],
                              ![t].gw = @ + 1]
    /\ pc' = [pc EXCEPT ![t] = "waiting"]
    /\ UNCHANGED <<conversations, heap, user_details, api_key, twilio,
                   message_queue, stat, ncalls>>

\* the gateway answers: response["choices"][0]["message"]["content"]
GatewayReturns(t, text) ==
    /\ pc[t] = "waiting"
    /\ frame' = [frame EXCEPT ![t].assistant_message = text]
    /\ pc' = [pc EXCEPT ![t] = "append_assistant"]
    /\ UNCHANGED <<conversations, heap, user_details, api_key, twilio,
                   message_queue, stat, ncalls>>

\* the call, or reading its response, raises: `except Exception as e`
GatewayFails(t, d) ==
    /\ pc[t] = "waiting"
    /\ frame' = [frame EXCEPT ![t].error = d]
    /\ pc' = [pc EXCEPT ![t] = "except"]
    /\ UNCHANGED <<conversations, heap, user_details, api_key, twilio,
                   message_queue, stat, ncalls>>

\* conversation.append({"role": "assistant", "content": assistant_message})
AppendAssistant(t) ==
    /\ pc[t] = "append_assistant"
    /\ heap' = [heap EXCEPT ![frame[t].conversation] =
                   Append(@, [role |-> "assistant",
                              content |-> frame[t].assistant_message,
                              of |-> frame[t].user_id])]
    /\ frame' = [frame EXCEPT ![t].response = frame[t].assistant_message,
                              ![t].outcome = "success"]
    /\ pc' = [pc EXCEPT ![t] = "limit"]
    /\ UNCHANGED <<conversations, user_details, api_key, twilio, message_queue,
                   stat, ncalls>>

\* `if len(conversation) > 20` is false
WithinLimit(t) ==
    /\ pc[t] = "limit"
    /\ ~(Len(heap[frame[t].conversation]) > MaxHistory)
    /\ pc' = [pc EXCEPT ![t] = "emit"]
    /\ UNCHANGED <<conversations, heap, user_details, api_key, twilio,
                   message_queue, frame, stat, ncalls>>

\* conversation = [conversation[0]] + conversation[-19:], a new list object
Trim(t) ==
    /\ pc[t] = "limit"
    /\ Len(heap[frame[t].conversation]) > MaxHistory
    /\ Install(conversations, [frame EXCEPT ![t].conversation = Fresh],
               [heap EXCEPT ![Fresh] = Trimmed(heap[frame[t].conversation])])
    /\ pc' = [pc EXCEPT ![t] = "store"]
    /\ UNCHANGED <<user_details, api_key, twilio, message_queue, stat, ncalls>>

\* self.conversations[user_id] = conversation
StoreTrimmed(t) ==
    /\ pc[t] = "store"
    /\ Install([conversations EXCEPT ![frame[t].user_id] = frame[t].conversation],
               frame, heap)
    /\ pc' = [pc EXCEPT ![t] = "emit"]
    /\ UNCHANGED <<user_details, api_key, twilio, message_queue, stat, ncalls>>

\* the "Sent to" event and `return response`
Reply(t) ==
    /\ pc[t] = "emit"
    /\ message_queue' = Append(message_queue,
                               SentEvent(frame[t].user_name, frame[t].response))
    /\ Install(conversations,
               [frame EXCEPT ![t].conversation = None,
                             ![t].puts = Append(@, Len(message_queue) + 1)],
               heap)
    /\ stat' = [stat EXCEPT
                   ![frame[t].user_id].n =
                       IF frame[t].outcome = "success" THEN @ + 1 ELSE @,
                   ![frame[t].user_id].pure = @ /\ frame[t].outcome # "nokey"]
    /\ pc' = [pc EXCEPT ![t] = "returned"]
    /\ UNCHANGED <<user_details, api_key, twilio, ncalls>>

\* the handler: the "ERROR" event and the apology as the reply
HandleError(t) ==
    /\ pc[t] = "except"
    /\ message_queue' = Append(message_queue, ErrorEvent(frame[t].error))
    /\ Install(conversations,
               [frame EXCEPT ![t].response = SorryReply(frame[t].error),
                             ![t].outcome = "error",
                             ![t].conversation = None,
                             ![t].puts = Append(@, Len(message_queue) + 1)],
               heap)
    /\ stat' = [stat EXCEPT ![frame[t].user_id].pure = FALSE]
    /\ pc' = [pc EXCEPT ![t] = "returned"]
    /\ UNCHANGED <<user_details, api_key, twilio, ncalls>>

----------------------------------------------------------------------------
(* The settings tab of the front-end, which runs beside the request threads *)

\* BotGUI.update_api_key: openai.api_key = new_api_key (a non-empty input)
UpdateApiKey ==
    /\ ~api_key
    /\ api_key' = TRUE
    /\ UNCHANGED <<conversations, heap, user_details, twilio, message_queue, pc,
                   frame, stat, ncalls>>

\* one step of request thread t inside process_message
Step(t) ==
    \/ Command(t)
    \/ GetHistory(t) \/ SeedHistory(t) \/ ReadHistory(t) \/ AppendUser(t)
    \/ NoApiKey(t) \/ Processing(t) \/ CallGateway(t)
    \/ AppendAssistant(t) \/ WithinLimit(t) \/ Trim(t) \/ StoreTrimmed(t)
    \/ Reply(t) \/ HandleError(t)

\* the gateway's side of a call
Gateway(t) ==
    \/ \E text \in Replies : GatewayReturns(t, text)
    \/ \E d \in Failures : GatewayFails(t, d)

\* the same, with one way to fail
GatewayOnce(t) ==
    \/ GatewayReturns(t, YO)
    \/ GatewayFails(t, <<"timed out">>)

----------------------------------------------------------------------------
(* Specifications *)

\* A new request is served by the first request thread that is free.
Free(t) == ~Active(t) /\ \A s \in Threads : ~Active(s) => t <= s

\* Deliveries of the webhook arrive concurrently, from any sender.
Next ==
    \/ \E t \in Threads, u \in Users, raw \in {HI, CLEAR} :
           ncalls < MaxCalls /\ Free(t) /\ whatsapp_webhook(t, u, raw)
    \/ \E t \in Threads : Step(t)
    \/ \E t \in Threads : GatewayOnce(t)
    \/ UpdateApiKey

Spec == Init /\ [][Next]_vars

\* process_message and the webhook as functions of the text: one sender, one
\* request at a time, any text
NextText ==
    \/ \E raw \in ChatTexts \cup CommandTexts :
           ncalls < MaxCallsText /\ whatsapp_webhook(1, UserA, raw)
    \/ \E text \in ChatTexts \cup CommandTexts :
           ncalls < MaxCallsText /\ DirectCall(1, UserA, text)
    \/ Step(1)
    \/ Gateway(1)
    \/ UpdateApiKey

SpecText == InitText /\ [][NextText]_vars

\* one sender chats, one message after the other
ChatStep(t) ==
    \/ GetHistory(t) \/ SeedHistory(t) \/ ReadHistory(t) \/ AppendUser(t)
    \/ NoApiKey(t) \/ Processing(t) \/ CallGateway(t)
    \/ AppendAssistant(t) \/ WithinLimit(t) \/ Trim(t) \/ StoreTrimmed(t)
    \/ Reply(t) \/ HandleError(t)

NextLong ==
    \/ ncalls < MaxCallsLong /\ whatsapp_webhook(1, UserA, HI)
    \/ ChatStep(1)
    \/ GatewayOnce(1)
    \/ UpdateApiKey

SpecLong == InitLong /\ [][NextLong]_vars

\* The request threads are scheduled fairly: a call that can take a step of
\* process_message takes it.  Nothing makes the gateway answer.
FairSpec == Init /\ [][Next]_vars /\ \A t \in Threads : WF_vars(Step(t))

----------------------------------------------------------------------------
(* Properties *)

Min(a, b) == IF a <= b THEN a ELSE b

\* no call for user u is running
Quiet(u) == \A t \in Threads : Active(t) => frame[t].user_id # u

Returned(t) == pc[t] = "returned"

\* C1: every stored history is non-empty, begins with the system message
\* and holds no other message of role system.
C1_SystemFirst ==
    \A u \in Users :
        conversations[u] # None =>
            /\ Len(History(u)) >= 1
            /\ History(u)[1].role = "system"
            /\ \A i \in 2..Len(History(u)) : History(u)[i].role # "system"

\* a successful call has trimmed the history and stored the trimmed list
C1_Witness ==
    \E t \in Threads :
        /\ pc[t] = "emit"
        /\ frame[t].outcome = "success"
        /\ conversations[frame[t].user_id] = frame[t].conversation
        /\ Len(History(frame[t].user_id)) = MaxHistory

\* C2: after N >= 1 chat calls of one user that began with no history, ran
\* one after another and were all answered, the stored history has
\* min(1 + 2N, 20) entries and begins with the system message.
C2_LengthAfterTurns ==
    \A u \in Users :
        (Quiet(u) /\ stat[u].pure /\ stat[u].serial /\ stat[u].n >= 1) =>
            /\ Len(History(u)) = Min(1 + 2 * stat[u].n, MaxHistory)
            /\ History(u)[1].role = "system"

\* eleven answered calls: the history was trimmed twice and has 20 entries
C2_Witness ==
    /\ Quiet(UserA) /\ stat[UserA].pure /\ stat[UserA].serial
    /\ stat[UserA].n = 11
    /\ Len(History(UserA)) = MaxHistory

\* C3: when a process_message call has returned, whatever its outcome, the
\* stored history of its user has at most 20 entries.
C3_BoundedAfterEveryCall ==
    \A t \in Threads :
        Returned(t) => Len(History(frame[t].user_id)) <= MaxHistory

\* C4: when the calls made for a user, concurrent or not, were all answered,
\* the stored history holds every one of their exchanges: its length is
\* min(1 + 2 * answered calls, 20).
C4_NoLostUpdate ==
    \A u \in Users :
        (Quiet(u) /\ stat[u].pure /\ stat[u].n >= 1) =>
            Len(History(u)) = Min(1 + 2 * stat[u].n, MaxHistory)

\* the messages of list l as the gateway sees them: role and content
Plain(l) == [i \in 1..Len(l) |-> [role |-> l[i].role, content |-> l[i].content]]

\* the history n answered "hi" calls leave when they run one at a time
RECURSIVE SerialHistory(_)
SerialHistory(n) ==
    IF n = 0 THEN <<SystemMessage>>
    ELSE LET l == SerialHistory(n - 1) \o Turns(1)
         IN IF Len(l) > MaxHistory THEN Trimmed(l) ELSE l

\* C5: calls for one user are serialized.  When the calls made for a user
\* were all answered, each of them handed the gateway a list that a
\* one-at-a-time order of the calls produces: the history of some number of
\* complete exchanges, then its own user message (never another call's user
\* message without the reply to it).
C5_Serialized ==
    \A t \in Threads :
        LET u == frame[t].user_id
        IN (Returned(t) /\ frame[t].outcome = "success" /\ Quiet(u) /\ stat[u].pure)
           => \E j \in 0..(stat[u].n - 1) :
                  Plain(frame[t].sent) = Plain(SerialHistory(j)) \o
                      <<[role |-> "user", content |-> frame[t].user_message]>>

\* C6: a call that finds no credential returns the warning, does not invoke
\* the gateway and leaves the stored history as it was before the call (the
\* system seed alone for a new user).
C6_NoKeyLeavesHistory ==
    \A t \in Threads :
        (Returned(t) /\ frame[t].outcome = "nokey") =>
            /\ frame[t].response = WarningReply
            /\ frame[t].gw = 0
            /\ History(frame[t].user_id) =
                   (IF frame[t].before = <<>> THEN <<SystemMessage>>
                    ELSE frame[t].before)

\* the text d occurs in the text r
Contains(r, d) == \E i \in 1..(Len(r) - Len(d) + 1) : SubSeq(r, i, i + Len(d) - 1) = d

\* C7 as stated: after a gateway failure with description d the reply is
\* "Sorry, I encountered an error: " followed by d, and an ERROR event
\* carries d.
C7_ReplyIsPrefixAndDescription ==
    \A t \in Threads :
        (Returned(t) /\ frame[t].outcome = "error") =>
            /\ frame[t].response = <<"Sorry, I encountered an error: ">> \o frame[t].error
            /\ \E i \in 1..Len(message_queue) :
                   message_queue[i][1] = "ERROR: " /\ Contains(message_queue[i], frame[t].error)

\* C7 amended: after a gateway failure with description d the call returns
\* the non-empty reply "Sorry, I encountered an error: Error: " followed
\* by d, which contains d, and the event "ERROR: Error: " followed by d is
\* in the queue.
C7_ReplyCarriesDescription ==
    \A t \in Threads :
        (Returned(t) /\ frame[t].outcome = "error") =>
            /\ frame[t].response =
                   <<"Sorry, I encountered an error: ", "Error: ">> \o frame[t].error
            /\ frame[t].response # <<>>
            /\ Contains(frame[t].response, frame[t].error)
            /\ \E i \in 1..Len(message_queue) :
                   message_queue[i] = <<"ERROR: ", "Error: ">> \o frame[t].error

\* a call whose gateway response could not be read has returned
C7_Witness ==
    \E t \in Threads :
        /\ Returned(t) /\ frame[t].outcome = "error"
        /\ frame[t].error = <<"'choices'">>
        /\ frame[t].gw = 1

\* C8: every call that has begun eventually returns a reply.
C8_EveryCallReturns == \A t \in Threads : Active(t) ~> Returned(t)

\* the text is one of the three directives, whatever its letter case
Directive(m) ==
    \E c \in {CLEAR, HELP, INFO} :
        Len(m) = Len(c) /\ \A i \in 1..Len(c) : LowerChar(m[i]) = c[i]

\* C9: a call that began with the credential configured has invoked the
\* gateway once if its text is no directive and never if it is one; a
\* directive call never invokes the gateway, and no call invokes it twice.
C9_GatewayIffNoDirective ==
    \A t \in Threads :
        /\ frame[t].gw <= 1
        /\ (Active(t) \/ Returned(t)) /\ Directive(frame[t].user_message)
               => frame[t].gw = 0
        /\ (Returned(t) /\ frame[t].key) =>
               frame[t].gw = (IF Directive(frame[t].user_message) THEN 0 ELSE 1)

\* "x!help" and "!clear now" went to the gateway
C9_Witness ==
    \E t \in Threads :
        /\ Returned(t) /\ frame[t].key /\ frame[t].gw = 1
        /\ frame[t].user_message = <<"x", "!", "h", "e", "l", "p">>

\* what directive c answers and leaves in the store for a user whose stored
\* history was h (<<>>: none)
DirectiveReply(c, h) ==
    IF c = CLEAR THEN (IF h # <<>> THEN ClearedReply ELSE NotFoundReply)
    ELSE IF c = HELP THEN HelpReply ELSE InfoReply
DirectiveStore(c, h) == IF c = CLEAR /\ h # <<>> THEN <<SystemMessage>> ELSE h

\* the text m is directive c in some letter case, between i leading and j
\* trailing blanks
Variant(m, c, i, j) ==
    /\ Len(m) = i + Len(c) + j
    /\ \A k \in 1..Len(m) :
           IF k <= i \/ k > i + Len(c) THEN m[k] = SP ELSE LowerChar(m[k]) = c[k - i]

\* ... with any surrounding whitespace
AnyVariant(m, c) == \E i, j \in 0..Len(m) : Variant(m, c, i, j)

\* the call of thread t did what the bare directive c does
ActedAs(t, c) ==
    /\ frame[t].gw = 0
    /\ frame[t].response = DirectiveReply(c, frame[t].before)
    /\ History(frame[t].user_id) = DirectiveStore(c, frame[t].before)

\* C10 as stated: process_message itself trims and folds the case, so a
\* call with a directive in any letter case and with surrounding whitespace
\* does what the bare lowercase literal does.
C10_ProcessMessageTrims ==
    \A t \in Threads, c \in {CLEAR, HELP, INFO} :
        (Returned(t) /\ AnyVariant(frame[t].user_message, c)) => ActedAs(t, c)

\* C10 amended: the webhook trims and process_message folds the case.  A
\* delivery of a directive in any letter case and with surrounding
\* whitespace, and a direct call with a directive in any letter case, do
\* what the bare lowercase literal does.
C10_WebhookTrims ==
    \A t \in Threads, c \in {CLEAR, HELP, INFO} :
        /\ (Returned(t) /\ frame[t].via = "webhook"
                /\ AnyVariant(frame[t].raw, c)) => ActedAs(t, c)
        /\ (Returned(t) /\ frame[t].via = "direct"
                /\ Variant(frame[t].raw, c, 0, 0)) => ActedAs(t, c)

\* " !CLEAR " was delivered and reset a stored history
C10_Witness ==
    \E t \in Threads :
        /\ Returned(t) /\ frame[t].via = "webhook"
        /\ frame[t].raw = <<SP, "!", "C", "L", "E", "A", "R", SP>>
        /\ frame[t].response = ClearedReply
        /\ History(frame[t].user_id) = <<SystemMessage>>

\* the event before the last one in the queue
Previous == message_queue[Len(message_queue) - 1]

\* C11: !clear for a user with a stored history, of any length, replaces it
\* with the system message alone and answers "Conversation history
\* cleared. ..."; for a user without one it answers "No conversation history
\* found." and creates none.  In both cases the history that
\* get_conversation_history hands to the next call has one entry, of role
\* system.
C11_ClearResets ==
    \A t \in Threads :
        /\ (Returned(t) /\ Variant(frame[t].user_message, CLEAR, 0, 0)) =>
               IF frame[t].before # <<>>
               THEN /\ frame[t].response = ClearedReply
                    /\ conversations[frame[t].user_id] # None
                    /\ History(frame[t].user_id) = <<SystemMessage>>
               ELSE /\ frame[t].response = NotFoundReply
                    /\ conversations[frame[t].user_id] = None
        /\ (/\ pc[t] = "append_user"
            /\ Len(message_queue) >= 2
            /\ Previous \in {SentEvent(frame[t].user_name, ClearedReply),
                             SentEvent(frame[t].user_name, NotFoundReply)}) =>
               /\ Len(heap[frame[t].conversation]) = 1
               /\ heap[frame[t].conversation][1].role = "system"

\* a history of nine exchanges was cleared, and the next call has obtained
\* the user's history
C11_Witness ==
    \E t \in Threads :
        /\ pc[t] = "append_user"
        /\ Len(message_queue) > Len(Logged(9, frame[t].user_name))
        /\ Previous = SentEvent(frame[t].user_name, ClearedReply)
        /\ heap[frame[t].conversation] = <<SystemMessage>>

\* the identifier without its channel prefix
Bare(u) == IF u # <<>> /\ Head(u) = "whatsapp:" THEN Tail(u) ELSE u

\* thread t begins a process_message call in this step
Begins(t) == ~Active(t) /\ pc'[t] = "dispatch"

\* C12: the first get_user_name for an unseen identifier returns the
\* identifier without its channel prefix and records it in the directory;
\* a recorded name is never changed or removed, and every later resolve
\* returns it.
C12_RecordedOnFirstResolve ==
    [][/\ \A u \in Users :
              user_details[u] # NoName => user_details'[u] = user_details[u]
       /\ \A t \in Threads :
              Begins(t) =>
                  LET u == frame'[t].user_id
                  IN /\ frame'[t].user_name =
                            (IF user_details[u] # NoName THEN user_details[u]
                             ELSE Bare(u))
                     /\ user_details'[u] = frame'[t].user_name]_vars

\* no call so far was answered with the warning of the missing credential
NoWarning ==
    \A i \in 1..Len(message_queue), u \in Users :
        message_queue[i] # SentEvent(UserName(u), WarningReply)

\* C13: after a call whose gateway invocation failed, the stored history of
\* its user is what it was before the call (the system seed alone for a new
\* user), so the list a later answered call hands to the gateway holds no
\* user message without its reply, except that call's own at the end.
C13_FailureLeavesHistory ==
    \A t \in Threads :
        /\ (Returned(t) /\ frame[t].outcome = "error") =>
               History(frame[t].user_id) =
                   (IF frame[t].before = <<>> THEN <<SystemMessage>>
                    ELSE frame[t].before)
        /\ (Returned(t) /\ frame[t].outcome = "success" /\ NoWarning) =>
               \A i \in 1..(Len(frame[t].sent) - 1) :
                   frame[t].sent[i].role = "user" =>
                       frame[t].sent[i + 1].role = "assistant"

\* the events of a call, as they lie in the queue
Events(t) == [i \in 1..Len(frame[t].puts) |-> message_queue[frame[t].puts[i]]]

\* the kind of an event: its leading text
Kind(e) == e[1]

\* C14: the events of a call lie in the queue in the order the call put
\* them, whatever other calls put between them.  The first, and only the
\* first, is the "Received from" event of the call's sender and text.  When
\* the call has returned, the last, and only the last, is a terminal event:
\* "Sent to" with exactly the returned reply, or "ERROR" when the gateway
\* failed; a call that has not returned has put no terminal event.  A call
\* that is about to put an event can always put it.
C14_EventsInOrder ==
    \A t \in Threads :
        (Active(t) \/ Returned(t)) =>
            LET p == frame[t].puts
                e == Events(t)
                n == Len(p)
            IN /\ n >= 1
               /\ \A i \in 1..n : p[i] \in 1..Len(message_queue)
               /\ \A i \in 1..(n - 1) : p[i] < p[i + 1]
               /\ e[1] = <<"Received from ">> \o frame[t].user_name \o <<": ">>
                             \o frame[t].user_message
               /\ \A i \in 2..n : Kind(e[i]) # "Received from "
               /\ \A i \in 1..(n - 1) : Kind(e[i]) \notin {"Sent to ", "ERROR: "}
               /\ Active(t) => Kind(e[n]) \notin {"Sent to ", "ERROR: "}
               /\ Returned(t) =>
                      /\ n >= 2
                      /\ IF frame[t].outcome = "error"
                         THEN Kind(e[n]) = "ERROR: "
                         ELSE e[n] = <<"Sent to ">> \o frame[t].user_name
                                         \o <<": ">> \o frame[t].response
               /\ pc[t] = "emit" => ENABLED Reply(t)
               /\ pc[t] = "except" => ENABLED HandleError(t)
               /\ (pc[t] = "keycheck" /\ api_key) => ENABLED Processing(t)

\* two calls ran at once and both were answered; the events of the second
\* lie between the events of the first
C14_Witness ==
    /\ Returned(1) /\ Returned(2)
    /\ frame[1].outcome = "success" /\ frame[2].outcome = "success"
    /\ frame[1].puts[1] < frame[2].puts[1]
    /\ frame[2].puts[3] < frame[1].puts[3]

\* C15: histories are isolated per user under any interleaving.  A step of
\* a call for one user neither creates, changes nor replaces the stored
\* history of another user, and every message after the system message in a
\* stored history, and in a list handed to the gateway, was appended by a
\* call for the user of that history, or of that call.
C15_Isolated ==
    /\ [](\A t \in Threads, u \in Users :
              /\ \A i \in 1..Len(frame[t].sent) :
                     \/ frame[t].sent[i].role = "system"
                     \/ frame[t].sent[i].of = frame[t].user_id
              /\ \A i \in 1..Len(History(u)) :
                     \/ History(u)[i].role = "system"
                     \/ History(u)[i].of = u)
    /\ [][\A t \in Threads :
              pc'[t] # pc[t] =>
                  \A b \in Users \ {frame'[t].user_id} :
                      /\ (conversations'[b] = None) = (conversations[b] = None)
                      /\ History(b)' = History(b)]_vars

\* two calls for different users ran at once and were answered; each handed
\* the gateway its own user's message
C15_Witness ==
    /\ Returned(1) /\ Returned(2)
    /\ frame[1].user_id # frame[2].user_id
    /\ frame[1].outcome = "success" /\ frame[2].outcome = "success"
    /\ frame[2].puts[1] < frame[1].puts[3]
    /\ Len(frame[1].sent) >= 2 /\ Len(frame[2].sent) >= 2
    /\ Len(History(UserA)) >= 3 /\ Len(History(UserB)) >= 3

====
